---- MODULE Spec2Model ----
(***************************************************************************)
(* A model of vissl/utils/checkpoint.py: checkpoint discovery in a folder, *)
(* the resume policy, the state-dict key transformers, the compatibility   *)
(* check and init_model_from_weights.                                      *)
(*                                                                         *)
(* Strings.  A Python str is modelled as a sequence of atoms; an atom is   *)
(* an indivisible piece of text ("model_phase", ".torch", "7", "heads.").  *)
(* The atoms of the names that are searched (file names, layer names)      *)
(* form a prefix-free code, and no text the code searches for straddles    *)
(* two atoms or lies inside one, so startswith / endswith / in / replace   *)
(* on the atom sequences agree with the same operations on the characters. *)
(* The keys of the nested dicts of a classy checkpoint ("trunk", "heads")  *)
(* are only looked up whole.                                               *)
(*                                                                         *)
(* Python values.  The outcome of a call is Return(v) or Raise(e).  The    *)
(* values None, True/False, str are kept apart (PyNone, PyBool, PyStr):    *)
(* None is not False.                                                      *)
(***************************************************************************)
EXTENDS Integers, Sequences, FiniteSets, TLC

VARIABLES
    listing,     \* os.listdir(checkpoint_folder): the entries, in listing order
    state_dict,  \* the source state dict handed to the dict operations
    model,       \* model.state_dict(): the target model's layers, in order
    op,          \* the call that was made, with its arguments
    ret,         \* the outcome of that call
    log,         \* the diagnostic report written by print_loaded_dict_info
    copied       \* the layers whose copy_ completed, in order

vars == <<listing, state_dict, model, op, ret, log, copied>>

---------------------------------------------------------------------------
(* Bounds of the model *)

MaxFiles == 3      \* entries in the checkpoint folder
MaxRank == 4       \* largest LATEST_CHECKPOINT_RESUME_FILE_NUM tried
MaxEntries == 3    \* entries of a state dict handed to the key transformers
MaxLayers == 2     \* layers of the target model
MaxSource == 2     \* entries of the state dict loaded into the model

---------------------------------------------------------------------------
(* Python values and outcomes *)

PyNone == [type |-> "NoneType"]
PyBool(b) == [type |-> "bool", b |-> b]
PyStr(s) == [type |-> "str", s |-> s]

Return(v) == [kind |-> "return", value |-> v]
Raise(e) == [kind |-> "raise", value |-> e]

NoCall == [name |-> "none"]
NoRet == [kind |-> "none"]

\* bool(v) for the values above
Truthy(v) ==
    CASE v.type = "NoneType" -> FALSE
      [] v.type = "bool" -> v.b
      [] v.type = "str" -> Len(v.s) > 0

---------------------------------------------------------------------------
(* str operations on atom sequences *)

Max(a, b) == IF a >= b THEN a ELSE b
Min(a, b) == IF a <= b THEN a ELSE b

\* s[i:i+len(sub)] == sub  (1-based i)
MatchAt(s, sub, i) ==
    /\ i >= 1
    /\ i + Len(sub) - 1 <= Len(s)
    /\ SubSeq(s, i, i + Len(sub) - 1) = sub

\* sub in s
Contains(s, sub) == \E i \in 1..(Len(s) + 1) : MatchAt(s, sub, i)

\* s.startswith(p)
StartsWith(s, p) == MatchAt(s, p, 1)

\* s.endswith(p)
EndsWith(s, p) == MatchAt(s, p, Len(s) - Len(p) + 1)

\* s.find(sub) as a 1-based index, 0 when absent
Find(s, sub) ==
    IF Contains(s, sub)
    THEN CHOOSE i \in 1..(Len(s) + 1) :
            /\ MatchAt(s, sub, i)
            /\ \A j \in 1..(i - 1) : ~MatchAt(s, sub, j)
    ELSE 0

\* s.replace(old, new, count); count = -1 replaces every occurrence.
\* With an empty pattern only count = 1 is used by the code: new is put in front.
RECURSIVE Replace(_, _, _, _)
Replace(s, old, new, count) ==
    IF count = 0 \/ ~Contains(s, old) THEN s
    ELSE IF Len(old) = 0 THEN new \o s
    ELSE LET i == Find(s, old)
         IN  SubSeq(s, 1, i - 1) \o new
                \o Replace(SubSeq(s, i + Len(old), Len(s)), old, new,
                           IF count < 0 THEN count ELSE count - 1)

DigitAtoms == {"0", "1", "2", "3", "4", "5", "6", "7", "8", "9"}

DigitVal(d) ==
    CASE d = "0" -> 0 [] d = "1" -> 1 [] d = "2" -> 2 [] d = "3" -> 3
      [] d = "4" -> 4 [] d = "5" -> 5 [] d = "6" -> 6 [] d = "7" -> 7
      [] d = "8" -> 8 [] d = "9" -> 9

DigitAtom(n) ==
    CASE n = 0 -> "0" [] n = 1 -> "1" [] n = 2 -> "2" [] n = 3 -> "3"
      [] n = 4 -> "4" [] n = 5 -> "5" [] n = 6 -> "6" [] n = 7 -> "7"
      [] n = 8 -> "8" [] n = 9 -> "9"

\* int(s) succeeds on a non-empty run of decimal digits (the atoms used here
\* include no sign, blank or underscore); anything else is a ValueError
IntParses(s) == Len(s) > 0 /\ \A i \in 1..Len(s) : s[i] \in DigitAtoms

RECURSIVE IntValue(_)
IntValue(s) ==
    IF Len(s) = 0 THEN 0
    ELSE 10 * IntValue(SubSeq(s, 1, Len(s) - 1)) + DigitVal(s[Len(s)])

\* f"{n}" for n >= 0
RECURSIVE IntToStr(_)
IntToStr(n) ==
    IF n < 10 THEN <<DigitAtom(n)>>
    ELSE IntToStr(n \div 10) \o <<DigitAtom(n % 10)>>

---------------------------------------------------------------------------
(* list operations *)

\* the elements of a sequence
Range(s) == {s[i] : i \in 1..Len(s)}

\* all_iters.sort(reverse=True): insertion of each element into a descending list
RECURSIVE InsertDesc(_, _)
InsertDesc(x, sorted) ==
    IF Len(sorted) = 0 THEN <<x>>
    ELSE IF x >= Head(sorted) THEN <<x>> \o sorted
    ELSE <<Head(sorted)>> \o InsertDesc(x, Tail(sorted))

RECURSIVE SortDesc(_)
SortDesc(s) ==
    IF Len(s) = 0 THEN <<>> ELSE InsertDesc(Head(s), SortDesc(Tail(s)))

---------------------------------------------------------------------------
(* The checkpoint folder *)

TORCH == <<".torch">>
MODEL_FINAL == <<"model_final">>
MODEL_PHASE == <<"model_phase">>
MODEL_ITERATION == <<"model_iteration">>

\* the entries a folder may hold
FileNames ==
    { <<"model_phase", "1", ".torch">>,
      <<"model_phase", "3", ".torch">>,
      <<"model_phase", "5", ".torch">>,
      <<"model_iteration", "2", ".torch">>,
      <<"model_final", "_checkpoint", ".torch">>,
      <<"model_final", "_checkpoint", ".torch", ".tmp">>,  \* not a .torch file
      <<"model_phase", "0", "7", ".torch">>,               \* leading zero
      <<"model_phase", "x", ".torch">>,                    \* malformed ordinal
      <<"3", "model_phase", ".torch">>,                    \* tag not at the start
      <<"x", ".torch">> }                                  \* no category tag

\* the possible results of os.listdir: distinct entries in an arbitrary order
Listings ==
    UNION { {s \in [1..n -> FileNames] : \A i, j \in 1..n : i # j => s[i] # s[j]}
            : n \in 0..MaxFiles }

---------------------------------------------------------------------------
(* has_checkpoint, has_final_checkpoint, is_training_finished *)

\* for f in checkpointed_files: f.endswith(".torch") and
\*     ("model_final" not in f or not skip_final)
has_checkpoint(files, skip_final) ==
    \E i \in 1..Len(files) :
        /\ EndsWith(files[i], TORCH)
        /\ (~Contains(files[i], MODEL_FINAL) \/ ~skip_final)

\* the two filters, then len(list(final_files)) > 0
has_final_checkpoint(files, final_checkpoint_pattern) ==
    LET torch_files == SelectSeq(files, LAMBDA x : EndsWith(x, TORCH))
        final_files == SelectSeq(torch_files,
                                 LAMBDA x : Contains(x, final_checkpoint_pattern))
    IN  Len(final_files) > 0

\* "return True" inside the if; falling off the end of the function returns None
is_training_finished(overwrite_existing, files) ==
    IF ~overwrite_existing /\ has_final_checkpoint(files, MODEL_FINAL)
    THEN Return(PyBool(TRUE))
    ELSE Return(PyNone)

---------------------------------------------------------------------------
(* get_checkpoint_resume_files *)

\* replace_prefix, chosen by CHECKPOINT_ITER_FREQUENCY > 0
ReplacePrefix(iter_freq) == IF iter_freq > 0 THEN MODEL_ITERATION ELSE MODEL_PHASE

\* f.replace(".torch", "").replace(replace_prefix, ""): the text handed to int()
OrdinalText(f, replace_prefix) ==
    Replace(Replace(f, TORCH, <<>>, -1), replace_prefix, <<>>, -1)

\* The loop over all_files, from entry i on, with the ordinals collected so far.
\* It ends in "return f" (a final file), in the ValueError of int(), or, when
\* the listing is exhausted, with all_iters.
RECURSIVE ScanFiles(_, _, _, _, _)
ScanFiles(files, i, replace_prefix, skip_final, all_iters) ==
    IF i > Len(files) THEN [kind |-> "scanned", all_iters |-> all_iters]
    ELSE LET f == files[i]
         IN  IF Contains(f, MODEL_FINAL) /\ ~skip_final THEN Return(PyStr(f))
             ELSE IF Contains(f, replace_prefix)
             THEN IF IntParses(OrdinalText(f, replace_prefix))
                  THEN ScanFiles(files, i + 1, replace_prefix, skip_final,
                                 Append(all_iters,
                                        IntValue(OrdinalText(f, replace_prefix))))
                  ELSE Raise("ValueError")
             ELSE ScanFiles(files, i + 1, replace_prefix, skip_final, all_iters)

\* checkpoint_resume_num = min(len(all_iters), max(0, latest_checkpoint_resume_num - 1))
CheckpointResumeNum(len_all_iters, latest_checkpoint_resume_num) ==
    Min(len_all_iters, Max(0, latest_checkpoint_resume_num - 1))

\* all_iters[k] on the sorted list, k 0-based and k >= 0: IndexError past the end
get_checkpoint_resume_files(files, iter_freq, skip_final, latest_checkpoint_resume_num) ==
    LET replace_prefix == ReplacePrefix(iter_freq)
        scan == ScanFiles(files, 1, replace_prefix, skip_final, <<>>)
    IN  IF scan.kind # "scanned" THEN scan
        ELSE LET all_iters == scan.all_iters
                 checkpoint_resume_num ==
                     CheckpointResumeNum(Len(all_iters), latest_checkpoint_resume_num)
             IN  IF Len(all_iters) > 0
                 THEN IF checkpoint_resume_num + 1 <= Len(all_iters)
                      THEN Return(PyStr(replace_prefix
                                 \o IntToStr(SortDesc(all_iters)[checkpoint_resume_num + 1])
                                 \o TORCH))
                      ELSE Raise("IndexError")
                 ELSE Return(PyNone)

---------------------------------------------------------------------------
(* get_resume_checkpoint *)

\* load_checkpoint belongs to classy_vision: the model records the call made
LoadCheckpoint(file) == [type |-> "load_checkpoint", file |-> file]

\* os.path.join(checkpoint_folder, None) is a TypeError
get_resume_checkpoint(overwrite_existing, auto_resume, iter_freq, resume_file_num, files) ==
    LET checkpoints_exists == has_checkpoint(files, overwrite_existing)
    IN  IF checkpoints_exists /\ auto_resume
        THEN LET checkpoint_file ==
                     get_checkpoint_resume_files(files, iter_freq, overwrite_existing,
                                                 resume_file_num)
             IN  IF checkpoint_file.kind = "raise" THEN checkpoint_file
                 ELSE IF checkpoint_file.value = PyNone THEN Raise("TypeError")
                 ELSE Return(LoadCheckpoint(checkpoint_file.value.s))
        ELSE Return(PyNone)

---------------------------------------------------------------------------
(* The calls on a checkpoint folder, each made once on a folder as found *)

IterFreqs == {0, 1}          \* CHECKPOINT_ITER_FREQUENCY: off, on
Ranks == 0..MaxRank          \* LATEST_CHECKPOINT_RESUME_FILE_NUM

InitResume ==
    /\ listing \in Listings
    /\ state_dict = <<>>
    /\ model = <<>>
    /\ op = NoCall
    /\ ret = NoRet
    /\ log = <<>>
    /\ copied = <<>>

CallIsTrainingFinished ==
    /\ op = NoCall
    /\ \E overwrite \in BOOLEAN :
        /\ op' = [name |-> "is_training_finished", overwrite |-> overwrite]
        /\ ret' = is_training_finished(overwrite, listing)
    /\ UNCHANGED <<listing, state_dict, model, log, copied>>

CallHasCheckpoint ==
    /\ op = NoCall
    /\ \E skip_final \in BOOLEAN :
        /\ op' = [name |-> "has_checkpoint", skip_final |-> skip_final]
        /\ ret' = Return(PyBool(has_checkpoint(listing, skip_final)))
    /\ UNCHANGED <<listing, state_dict, model, log, copied>>

CallHasFinalCheckpoint ==
    /\ op = NoCall
    /\ op' = [name |-> "has_final_checkpoint"]
    /\ ret' = Return(PyBool(has_final_checkpoint(listing, MODEL_FINAL)))
    /\ UNCHANGED <<listing, state_dict, model, log, copied>>

CallGetCheckpointResumeFiles ==
    /\ op = NoCall
    /\ \E iter_freq \in IterFreqs, skip_final \in BOOLEAN, rank \in Ranks :
        /\ op' = [name |-> "get_checkpoint_resume_files", iter_freq |-> iter_freq,
                  skip_final |-> skip_final, rank |-> rank]
        /\ ret' = get_checkpoint_resume_files(listing, iter_freq, skip_final, rank)
    /\ UNCHANGED <<listing, state_dict, model, log, copied>>

CallGetResumeCheckpoint ==
    /\ op = NoCall
    /\ \E overwrite \in BOOLEAN, auto_resume \in BOOLEAN, iter_freq \in IterFreqs,
          rank \in Ranks :
        /\ op' = [name |-> "get_resume_checkpoint", overwrite |-> overwrite,
                  auto_resume |-> auto_resume, iter_freq |-> iter_freq, rank |-> rank]
        /\ ret' = get_resume_checkpoint(overwrite, auto_resume, iter_freq, rank, listing)
    /\ UNCHANGED <<listing, state_dict, model, log, copied>>

NextResume ==
    \/ CallIsTrainingFinished
    \/ CallHasCheckpoint
    \/ CallHasFinalCheckpoint
    \/ CallGetCheckpointResumeFiles
    \/ CallGetResumeCheckpoint

SpecResume == InitResume /\ [][NextResume]_vars

---------------------------------------------------------------------------
(* Python dicts: insertion-ordered, a sequence of items with distinct keys *)

Item(k, v) == [key |-> k, val |-> v]

DictKeys(d) == [i \in 1..Len(d) |-> d[i].key]

\* k in d
DictHas(d, k) == \E i \in 1..Len(d) : d[i].key = k

\* d[k], for k in d
DictGet(d, k) == d[CHOOSE i \in 1..Len(d) : d[i].key = k].val

\* d[k] = v: an existing key keeps its place and takes the new value,
\* a new key goes to the end
DictSet(d, k, v) ==
    IF DictHas(d, k)
    THEN [i \in 1..Len(d) |-> IF d[i].key = k THEN Item(k, v) ELSE d[i]]
    ELSE Append(d, Item(k, v))

\* d.update(other)
RECURSIVE DictUpdate(_, _)
DictUpdate(d, other) ==
    IF Len(other) = 0 THEN d
    ELSE DictUpdate(DictSet(d, Head(other).key, Head(other).val), Tail(other))

\* values held by state dicts
Tensor(shape, data) == [type |-> "Tensor", shape |-> shape, data |-> data]
NdArray(shape, data) == [type |-> "ndarray", shape |-> shape, data |-> data]
Dict(items) == [type |-> "dict", items |-> items]
List(shape, data) == [type |-> "list", shape |-> shape, data |-> data]

---------------------------------------------------------------------------
(* replace_module_prefix, append_module_prefix *)

\* a variant that rewrites every occurrence of the prefix (the count of 1 dropped)
ReplacedKey_EveryOccurrence(key, prefix, replace_with) ==
    IF StartsWith(key, prefix) THEN Replace(key, prefix, replace_with, -1) ELSE key

\* a variant without the startswith test: the first occurrence, wherever it is
ReplacedKey_Anywhere(key, prefix, replace_with) ==
    Replace(key, prefix, replace_with, 1)

\* key.replace(prefix, replace_with, 1) if key.startswith(prefix) else key
ReplacedKey(key, prefix, replace_with) ==
    IF StartsWith(key, prefix) THEN Replace(key, prefix, replace_with, 1) ELSE key

\* the dict comprehension over state_dict.items(), entries i..end, into acc
RECURSIVE ReplaceItems(_, _, _, _, _)
ReplaceItems(d, i, prefix, replace_with, acc) ==
    IF i > Len(d) THEN acc
    ELSE ReplaceItems(d, i + 1, prefix, replace_with,
                      DictSet(acc, ReplacedKey(d[i].key, prefix, replace_with), d[i].val))

replace_module_prefix(d, prefix, replace_with) ==
    ReplaceItems(d, 1, prefix, replace_with, <<>>)

\* f"{prefix}{key}"
AppendedKey(key, prefix) == prefix \o key

RECURSIVE AppendItems(_, _, _, _)
AppendItems(d, i, prefix, acc) ==
    IF i > Len(d) THEN acc
    ELSE AppendItems(d, i + 1, prefix,
                     DictSet(acc, AppendedKey(d[i].key, prefix), d[i].val))

append_module_prefix(d, prefix) == AppendItems(d, 1, prefix, <<>>)

---------------------------------------------------------------------------
(* check_model_compatibilty *)

HEADS_PREFIX == <<"heads.">>
TRUNK_PREFIX == <<"trunk.", "_feature_blocks.">>
TRUNK_PREFIX_EVAL == <<"trunk.", "base_model.", "_feature_blocks.">>

\* a variant that ignores FEATURE_EVAL_MODE
TrunkAppendPrefix_IgnoresMode(feature_eval_mode) == TRUNK_PREFIX

\* trunk_append_prefix, by config.MODEL.FEATURE_EVAL_MODE
TrunkAppendPrefix(feature_eval_mode) ==
    IF feature_eval_mode THEN TRUNK_PREFIX_EVAL ELSE TRUNK_PREFIX

\* the loop over state_dict.keys() with its break: is_compatible at the end
RECURSIVE IsCompatible(_, _, _)
IsCompatible(d, i, trunk_append_prefix) ==
    IF i > Len(d) THEN TRUE
    ELSE IF ~(StartsWith(d[i].key, trunk_append_prefix)
              \/ StartsWith(d[i].key, HEADS_PREFIX))
         THEN FALSE
         ELSE IsCompatible(d, i + 1, trunk_append_prefix)

check_model_compatibilty(feature_eval_mode, d) ==
    IF ~IsCompatible(d, 1, TrunkAppendPrefix(feature_eval_mode))
    THEN Raise("Exception")
    ELSE Return(PyNone)

---------------------------------------------------------------------------
(* The calls on a state dict *)

\* layer names found in checkpoints
KeyPool ==
    { <<"trunk.", "_feature_blocks.", "conv1">>,
      <<"trunk.", "base_model.", "_feature_blocks.", "conv1">>,
      <<"heads.", "fc">>,
      <<"encoder.", "layer", "1">>,
      <<"module.", "trunk.", "_feature_blocks.", "conv1">>,
      <<"module.", "heads.", "fc">>,
      <<"module.", "module.", "heads.", "fc">>,   \* the prefix twice
      <<"heads.", "module.", "fc">>,              \* the prefix, not at the start
      <<"fc">>,
      <<"conv1">> }

\* prefixes handed to the transformers; the empty string among them
PrefixPool == { <<>>, <<"module.">>, <<"heads.">>, TRUNK_PREFIX }

ReplaceWithPool == { <<>>, <<"trunk.">> }

\* state dicts: distinct keys in any order, entry i holding tensor number i
KeyDicts ==
    UNION { { [i \in 1..n |-> Item(ks[i], Tensor(1, i))] :
              ks \in {s \in [1..n -> KeyPool] : \A i, j \in 1..n : i # j => s[i] # s[j]} }
            : n \in 0..MaxEntries }

InitDict ==
    /\ listing = <<>>
    /\ state_dict \in KeyDicts
    /\ model = <<>>
    /\ op = NoCall
    /\ ret = NoRet
    /\ log = <<>>
    /\ copied = <<>>

CallReplaceModulePrefix ==
    /\ op = NoCall
    /\ \E prefix \in PrefixPool, replace_with \in ReplaceWithPool :
        /\ op' = [name |-> "replace_module_prefix", input |-> state_dict,
                  prefix |-> prefix, replace_with |-> replace_with]
        /\ ret' = Return(Dict(replace_module_prefix(state_dict, prefix, replace_with)))
    /\ UNCHANGED <<listing, state_dict, model, log, copied>>

CallAppendModulePrefix ==
    /\ op = NoCall
    /\ \E prefix \in PrefixPool :
        /\ op' = [name |-> "append_module_prefix", input |-> state_dict,
                  prefix |-> prefix]
        /\ ret' = Return(Dict(append_module_prefix(state_dict, prefix)))
    /\ UNCHANGED <<listing, state_dict, model, log, copied>>

\* append_module_prefix(replace_module_prefix(state_dict, p), p)
CallStripThenAppend ==
    /\ op = NoCall
    /\ \E prefix \in PrefixPool :
        /\ op' = [name |-> "strip_then_append", input |-> state_dict,
                  prefix |-> prefix]
        /\ ret' = Return(Dict(append_module_prefix(
                                 replace_module_prefix(state_dict, prefix, <<>>), prefix)))
    /\ UNCHANGED <<listing, state_dict, model, log, copied>>

CallCheckModelCompatibilty ==
    /\ op = NoCall
    /\ \E feature_eval_mode \in BOOLEAN :
        /\ op' = [name |-> "check_model_compatibilty",
                  feature_eval_mode |-> feature_eval_mode]
        /\ ret' = check_model_compatibilty(feature_eval_mode, state_dict)
    /\ UNCHANGED <<listing, state_dict, model, log, copied>>

NextDict ==
    \/ CallReplaceModulePrefix
    \/ CallAppendModulePrefix
    \/ CallStripThenAppend
    \/ CallCheckModelCompatibilty

SpecDict == InitDict /\ [][NextDict]_vars

---------------------------------------------------------------------------
(* Properties of the state-dict operations, checked under SpecDict *)

\* p is a leading part of k, stated on the positions of k
HasPrefix(k, p) == Len(p) <= Len(k) /\ \A i \in 1..Len(p) : k[i] = p[i]

\* k without its first n atoms
DropFirst(k, n) == [i \in 1..(Len(k) - n) |-> k[i + n]]

\* the key an entry is expected under after replace_module_prefix
ExpectedKey(k, p, w) == IF HasPrefix(k, p) THEN w \o DropFirst(k, Len(p)) ELSE k

KeySet(d) == {d[i].key : i \in 1..Len(d)}

\* C4: check_model_compatibilty raises the compatibility error if and only if
\* some key of the state dict starts with neither "heads." nor the trunk prefix
\* of the current mode; a dict with "encoder.layer1" is rejected, a key with the
\* trunk prefix of the other mode is rejected, and a dict whose keys all carry a
\* recognised prefix (the empty dict included) passes and returns None.
C4_RaisesIffForeignKey ==
    op.name = "check_model_compatibilty" =>
        LET trunk == IF op.feature_eval_mode
                     THEN <<"trunk.", "base_model.", "_feature_blocks.">>
                     ELSE <<"trunk.", "_feature_blocks.">>
            other == IF op.feature_eval_mode
                     THEN <<"trunk.", "_feature_blocks.">>
                     ELSE <<"trunk.", "base_model.", "_feature_blocks.">>
            Foreign(k) == ~HasPrefix(k, <<"heads.">>) /\ ~HasPrefix(k, trunk)
        IN  /\ (ret = Raise("Exception")) <=> (\E k \in KeySet(state_dict) : Foreign(k))
            /\ (ret = Return(PyNone)) <=> (\A k \in KeySet(state_dict) : ~Foreign(k))
            /\ <<"encoder.", "layer", "1">> \in KeySet(state_dict) => ret = Raise("Exception")
            /\ (\E k \in KeySet(state_dict) : HasPrefix(k, other))
                   => ret = Raise("Exception")
            /\ state_dict = <<>> => ret = Return(PyNone)

\* a training-mode check rejected a dict only because of a key that carries
\* the trunk prefix of feature-evaluation mode
C4_Witness ==
    /\ op.name = "check_model_compatibilty"
    /\ ~op.feature_eval_mode
    /\ Len(state_dict) >= 2
    /\ \A k \in KeySet(state_dict) :
          \/ HasPrefix(k, <<"heads.">>)
          \/ HasPrefix(k, <<"trunk.", "_feature_blocks.">>)
          \/ HasPrefix(k, <<"trunk.", "base_model.", "_feature_blocks.">>)
    /\ \E k \in KeySet(state_dict) :
          HasPrefix(k, <<"trunk.", "base_model.", "_feature_blocks.">>)
    /\ ret = Raise("Exception")

\* C5 as stated: replace_module_prefix leaves its input unchanged and, entry by
\* entry in input order, the output holds the same value under the rewritten key
\* (only a leading prefix is rewritten), so the output has as many entries as
\* the input.
C5_EveryEntryKept ==
    op.name = "replace_module_prefix" =>
        LET d == op.input
            out == ret.value.items
        IN  /\ state_dict = op.input
            /\ Len(out) = Len(d)
            /\ \A i \in 1..Len(d) :
                  out[i] = Item(ExpectedKey(d[i].key, op.prefix, op.replace_with),
                                d[i].val)

\* C5 as amended: the input is unchanged; the keys of the output are the
\* rewritten keys of the input (only a leading prefix is rewritten), each once,
\* in the order of their first appearance; a key to which several entries are
\* rewritten holds the value of the last of them; so the output has as many
\* entries as there are distinct rewritten keys, and it is the entry-by-entry
\* image of the input exactly when no two entries are rewritten to the same key.
C5_LastOfEqualKeysWins ==
    op.name = "replace_module_prefix" =>
        LET d == op.input
            out == ret.value.items
            NewKey(i) == ExpectedKey(d[i].key, op.prefix, op.replace_with)
            First(k) == CHOOSE i \in 1..Len(d) :
                            NewKey(i) = k /\ \A j \in 1..(i - 1) : NewKey(j) # k
            Last(k) == CHOOSE i \in 1..Len(d) :
                            NewKey(i) = k /\ \A j \in (i + 1)..Len(d) : NewKey(j) # k
            Injective == \A i, j \in 1..Len(d) : NewKey(i) = NewKey(j) => i = j
        IN  /\ ret.kind = "return"
            /\ state_dict = op.input
            /\ KeySet(out) = {NewKey(i) : i \in 1..Len(d)}
            /\ Len(out) = Cardinality({NewKey(i) : i \in 1..Len(d)})
            /\ \A a \in 1..Len(out) : out[a].val = d[Last(out[a].key)].val
            /\ \A a, b \in 1..Len(out) :
                  a < b => First(out[a].key) < First(out[b].key)
            /\ Injective <=> Len(out) = Len(d)
            /\ Injective =>
                  \A i \in 1..Len(d) : out[i] = Item(NewKey(i), d[i].val)

\* two entries were rewritten to one key and the output is shorter than the input
C5_Witness ==
    /\ op.name = "replace_module_prefix"
    /\ Len(op.input) = 3
    /\ Len(ret.value.items) = 2
    /\ \E i \in 1..Len(op.input) :
          /\ HasPrefix(op.input[i].key, op.prefix)
          /\ Len(op.prefix) > 0
          /\ Contains(DropFirst(op.input[i].key, Len(op.prefix)), op.prefix)

\* C6 as stated: on a dict in which no key starts with p, replace_module_prefix
\* with p followed by append_module_prefix with p gives back the original dict.
C6_StripThenAppendIsNoOp ==
    (/\ op.name = "strip_then_append"
     /\ \A i \in 1..Len(op.input) : ~HasPrefix(op.input[i].key, op.prefix))
        => ret = Return(Dict(op.input))

\* C6 as amended: on a dict in which no key starts with p, replace_module_prefix
\* with p changes nothing and append_module_prefix with p then puts p in front
\* of every key: the result has the entries of the original, in order, each
\* under p + key with its value; it equals the original only for the empty dict.
C6_StripThenAppendPrefixesEveryKey ==
    (/\ op.name = "strip_then_append"
     /\ \A i \in 1..Len(op.input) : ~HasPrefix(op.input[i].key, op.prefix))
        => LET d == op.input
               out == ret.value.items
           IN  /\ ret.kind = "return"
               /\ Len(out) = Len(d)
               /\ \A i \in 1..Len(d) :
                     out[i] = Item(op.prefix \o d[i].key, d[i].val)
               /\ (out = d) <=> (d = <<>>)

\* a non-empty dict without the prefix at the start of any key went through
\* both steps and came back with other keys
C6_Witness ==
    /\ op.name = "strip_then_append"
    /\ Len(op.input) >= 2
    /\ \A i \in 1..Len(op.input) : ~HasPrefix(op.input[i].key, op.prefix)
    /\ \E i \in 1..Len(op.input) : Contains(op.input[i].key, op.prefix)
    /\ ret.value.items # op.input

---------------------------------------------------------------------------
(* Properties of the folder operations, checked under SpecResume *)

\* a final checkpoint file: a .torch entry that contains "model_final"
IsFinalFile(f) ==
    /\ Len(f) >= 1 /\ f[Len(f)] = ".torch"
    /\ \E i \in 1..Len(f) : f[i] = "model_final"

\* the category tag of the active category
ActiveTag(iter_freq) == IF iter_freq > 0 THEN "model_iteration" ELSE "model_phase"

\* <tag><N>.torch with N a decimal number without leading zeros
WellFormed(f, tag) ==
    /\ Len(f) >= 3
    /\ f[1] = tag
    /\ f[Len(f)] = ".torch"
    /\ \A i \in 2..(Len(f) - 1) : f[i] \in DigitAtoms
    /\ (Len(f) > 3 => f[2] # "0")

\* the ordinal N of a well-formed file
Ordinal(f) == IntValue(SubSeq(f, 2, Len(f) - 1))

\* entries that carry the tag anywhere in their name
Tagged(files, tag) == {f \in Range(files) : \E i \in 1..Len(f) : f[i] = tag}

\* the folder of C1: n >= 1 well-formed files of the active category, no other
\* entry carrying its tag, and no final file that is not skipped
ResumableFolder ==
    /\ Tagged(listing, ActiveTag(op.iter_freq)) # {}
    /\ \A f \in Tagged(listing, ActiveTag(op.iter_freq)) :
          WellFormed(f, ActiveTag(op.iter_freq))
    /\ (op.skip_final \/ \A f \in Range(listing) : "model_final" \notin Range(f))

\* the file with exactly k files of larger ordinal among fs
KthLatest(fs, k) ==
    CHOOSE f \in fs : Cardinality({g \in fs : Ordinal(g) > Ordinal(f)}) = k

\* C1: on a folder with n >= 1 well-formed files of the active category and no
\* final file that is not skipped, get_checkpoint_resume_files returns, for
\* every requested rank r, the file at index clamp(r - 1, 0, n - 1) of the
\* ordinals in descending order; ranks above n give the smallest ordinal and
\* never an error.
C1_RankIsClamped ==
    (op.name = "get_checkpoint_resume_files" /\ ResumableFolder) =>
        LET fs == Tagged(listing, ActiveTag(op.iter_freq))
            n == Cardinality(fs)
        IN  ret = Return(PyStr(KthLatest(fs, Min(Max(op.rank - 1, 0), n - 1))))

\* what the code does give: the clamped file for every rank up to n, and an
\* IndexError for every rank above n
C1_InRangeRanksOnly ==
    (op.name = "get_checkpoint_resume_files" /\ ResumableFolder) =>
        LET fs == Tagged(listing, ActiveTag(op.iter_freq))
            n == Cardinality(fs)
        IN  IF op.rank <= n
            THEN ret = Return(PyStr(KthLatest(fs, Max(op.rank - 1, 0))))
            ELSE ret = Raise("IndexError")

\* C2: whenever the folder holds a final checkpoint file and skip_final is
\* false, get_checkpoint_resume_files returns a final file of the folder, for
\* every listing order and whatever else the folder holds; no error is raised.
C2_FinalFileWins ==
    (/\ op.name = "get_checkpoint_resume_files"
     /\ ~op.skip_final
     /\ \E f \in Range(listing) : IsFinalFile(f))
        => /\ ret.kind = "return"
           /\ ret.value.type = "str"
           /\ ret.value.s \in Range(listing)
           /\ "model_final" \in Range(ret.value.s)

\* C3: is_training_finished returns True exactly when OVERWRITE_EXISTING is
\* false and the folder holds a final checkpoint file, and returns False in
\* each of the other combinations.
C3_TrueIffElseFalse ==
    op.name = "is_training_finished" =>
        ret = Return(PyBool(~op.overwrite /\ \E f \in Range(listing) : IsFinalFile(f)))

\* what the code does give: True in that one combination, None in the others
C3_TrueIffElseNone ==
    op.name = "is_training_finished" =>
        IF ~op.overwrite /\ \E f \in Range(listing) : IsFinalFile(f)
        THEN ret = Return(PyBool(TRUE))
        ELSE ret = Return(PyNone)

\* C10: in get_resume_checkpoint, whenever AUTO_RESUME is set and
\* has_checkpoint(folder, skip_final=OVERWRITE_EXISTING) is true, the name
\* handed to the checkpoint loader is the name of an entry of the folder: the
\* resolver yields a file, and the name rebuilt from the ordinal is the name it
\* was parsed from.
C10_ResumeNamesAnEntry ==
    (/\ op.name = "get_resume_checkpoint"
     /\ op.auto_resume
     /\ \E f \in Range(listing) :
           /\ f[Len(f)] = ".torch"
           /\ ("model_final" \notin Range(f) \/ ~op.overwrite))
        => /\ ret.kind = "return"
           /\ ret.value.type = "load_checkpoint"
           /\ ret.value.file \in Range(listing)

---------------------------------------------------------------------------
(* get_checkpoint_model_state_dict *)

CLASSY_STATE_DICT == <<"classy_state_dict">>

\* state_dict["base_model"]["model"], then "trunk" and "heads" with their
\* prefixes, trunk first and heads second; a missing key is a KeyError
get_checkpoint_model_state_dict(feature_eval_mode, sd) ==
    IF ~DictHas(sd, <<"base_model">>) THEN Raise("KeyError")
    ELSE IF ~DictHas(DictGet(sd, <<"base_model">>).items, <<"model">>)
    THEN Raise("KeyError")
    ELSE LET classy_state_dict ==
                 DictGet(DictGet(sd, <<"base_model">>).items, <<"model">>).items
             trunk_append_prefix ==
                 IF feature_eval_mode THEN <<"trunk.", "base_model.">> ELSE <<"trunk.">>
             heads_append_prefix == <<"heads.">>
         IN  IF ~DictHas(classy_state_dict, <<"trunk">>)
                \/ ~DictHas(classy_state_dict, <<"heads">>)
             THEN Raise("KeyError")
             ELSE LET trunk_state_dict ==
                          append_module_prefix(
                              DictGet(classy_state_dict, <<"trunk">>).items,
                              trunk_append_prefix)
                      heads_state_dict ==
                          append_module_prefix(
                              DictGet(classy_state_dict, <<"heads">>).items,
                              heads_append_prefix)
                  IN  Return(DictUpdate(DictUpdate(<<>>, trunk_state_dict),
                                        heads_state_dict))

---------------------------------------------------------------------------
(* print_loaded_dict_info *)

\* a variant that takes the skip strings for prefixes of the layer name
Skipped_ByPrefix(layername, skip_layers) ==
    /\ Len(skip_layers) > 0
    /\ \E i \in 1..Len(skip_layers) : StartsWith(layername, skip_layers[i])

\* len(skip_layers) > 0 and any(item in layername for item in skip_layers)
Skipped(layername, skip_layers) ==
    /\ Len(skip_layers) > 0
    /\ \E i \in 1..Len(skip_layers) : Contains(layername, skip_layers[i])

\* a variant that looks a layer up in the checkpoint before the skip list
LayerLine_LookupFirst(layername, sd, skip_layers) ==
    IF DictHas(sd, layername)
    THEN [msg |-> "Loaded", layer |-> layername]
    ELSE IF Skipped(layername, skip_layers)
    THEN [msg |-> "Ignored layer", layer |-> layername]
    ELSE [msg |-> "Not found", layer |-> layername]

\* the first loop: one line per layer of the model
LayerLine(layername, sd, skip_layers) ==
    IF Skipped(layername, skip_layers)
    THEN [msg |-> "Ignored layer", layer |-> layername]
    ELSE IF DictHas(sd, layername)
    THEN [msg |-> "Loaded", layer |-> layername]
    ELSE [msg |-> "Not found", layer |-> layername]

\* the second loop: the keys of the checkpoint that the model does not have
ExtraLayers(model_state_dict, sd) ==
    SelectSeq(DictKeys(sd), LAMBDA k : ~DictHas(model_state_dict, k))

\* max() of an empty sequence is a ValueError, raised before anything is logged
print_loaded_dict_info(model_state_dict, sd, skip_layers) ==
    IF Len(model_state_dict) = 0
    THEN [kind |-> "raise", value |-> "ValueError", log |-> <<>>]
    ELSE [kind |-> "return", value |-> PyNone,
          log |-> [i \in 1..Len(model_state_dict) |->
                      LayerLine(model_state_dict[i].key, sd, skip_layers)]
                  \o << [msg |-> "Extra layers",
                         layers |-> ExtraLayers(model_state_dict, sd)] >>]

---------------------------------------------------------------------------
(* init_model_from_weights *)

\* lines 347-351: the descent into state_dict[state_dict_key_name]
Descend(raw, key_name) ==
    IF Truthy(key_name) /\ Len(key_name.s) > 0
    THEN IF ~DictHas(raw, key_name.s) THEN Raise("AssertionError")
         ELSE Return(DictGet(raw, key_name.s).items)
    ELSE Return(raw)

\* lines 353-363: the classy reconciliation, or strip, append and the check
TransformKeys(feature_eval_mode, sd, key_name, replace_prefix, append_prefix) ==
    IF key_name = PyStr(CLASSY_STATE_DICT)
    THEN get_checkpoint_model_state_dict(feature_eval_mode, sd)
    ELSE LET sd1 == IF Truthy(replace_prefix)
                    THEN replace_module_prefix(sd, replace_prefix.s, <<>>)
                    ELSE sd
             sd2 == IF Truthy(append_prefix)
                    THEN append_module_prefix(sd1, append_prefix.s)
                    ELSE sd1
             check == check_model_compatibilty(feature_eval_mode, sd2)
         IN  IF check.kind = "raise" THEN check ELSE Return(sd2)

\* torch.from_numpy(param) for a param that is not a Tensor
FromNumpy(param) ==
    IF param.type = "ndarray" THEN Return(Tensor(param.shape, param.data))
    ELSE Raise("TypeError")

\* all_layers[layername].copy_(param): the data of param written into the
\* layer; tensors of different shapes (none of them broadcastable here) are a
\* RuntimeError that leaves the layer as it was
CopyInto(layer, param) ==
    IF param.shape = layer.shape THEN Return(Tensor(layer.shape, param.data))
    ELSE Raise("RuntimeError")

\* lines 367-374: the loop over all_layers.keys(), from layer i on
RECURSIVE CopyLoop(_, _, _, _, _)
CopyLoop(all_layers, i, sd, skip_layers, done) ==
    IF i > Len(all_layers)
    THEN [kind |-> "return", model |-> all_layers, copied |-> done]
    ELSE LET layername == all_layers[i].key
         IN  IF Skipped(layername, skip_layers)
             THEN CopyLoop(all_layers, i + 1, sd, skip_layers, done)
             ELSE IF DictHas(sd, layername)
             THEN LET got == DictGet(sd, layername)
                      param == IF got.type # "Tensor" THEN FromNumpy(got)
                               ELSE Return(got)
                  IN  IF param.kind = "raise"
                      THEN [kind |-> "raise", value |-> param.value,
                            model |-> all_layers, copied |-> done]
                      ELSE LET c == CopyInto(all_layers[i].val, param.value)
                           IN  IF c.kind = "raise"
                               THEN [kind |-> "raise", value |-> c.value,
                                     model |-> all_layers, copied |-> done]
                               ELSE CopyLoop(
                                        [all_layers EXCEPT ![i].val = c.value],
                                        i + 1, sd, skip_layers,
                                        Append(done, layername))
             ELSE CopyLoop(all_layers, i + 1, sd, skip_layers, done)

\* the outcome of one call: what it returns or raises, the model's layers
\* afterwards, the report logged and the layers copied
Outcome(r, m, l, c) == [ret |-> r, model |-> m, log |-> l, copied |-> c]

\* a variant that puts the model back as it was when a copy fails
AfterFailedCopy_RolledBack(m, loop) == Outcome(Raise(loop.value), m, <<>>, <<>>)

\* the exception of a failed copy leaves the function: the layers copied before
\* it stay copied, nothing is logged
AfterFailedCopy(m, loop) ==
    Outcome(Raise(loop.value), loop.model, <<>>, loop.copied)

init_model_from_weights(feature_eval_mode, m, raw, key_name, skip_layers, replace_prefix, append_prefix, local_rank) ==
    LET descent == Descend(raw, key_name)
    IN  IF descent.kind = "raise" THEN Outcome(descent, m, <<>>, <<>>)
        ELSE
        LET transformed == TransformKeys(feature_eval_mode, descent.value, key_name,
                                         replace_prefix, append_prefix)
        IN  IF transformed.kind = "raise" THEN Outcome(transformed, m, <<>>, <<>>)
            ELSE
            LET loop == CopyLoop(m, 1, transformed.value, skip_layers, <<>>)
            IN  IF loop.kind = "raise"
                THEN AfterFailedCopy(m, loop)
                ELSE IF local_rank = 0
                THEN LET info == print_loaded_dict_info(loop.model, transformed.value,
                                                        skip_layers)
                     IN  IF info.kind = "raise"
                         THEN Outcome(Raise(info.value), loop.model, <<>>, loop.copied)
                         ELSE Outcome(Return(Dict(loop.model)), loop.model, info.log,
                                      loop.copied)
                ELSE Outcome(Return(Dict(loop.model)), loop.model, <<>>, loop.copied)

---------------------------------------------------------------------------
(* The calls of init_model_from_weights *)

CONV1 == <<"trunk.", "_feature_blocks.", "conv1">>
CONV1_EVAL == <<"trunk.", "base_model.", "_feature_blocks.", "conv1">>
FC == <<"heads.", "fc">>

LayerPool == {CONV1, CONV1_EVAL, FC}

\* target models: distinct layers in any order, every layer of shape 1
Models ==
    UNION { { [i \in 1..n |-> Item(ks[i], Tensor(1, "init"))] :
              ks \in {s \in [1..n -> LayerPool] : \A i, j \in 1..n : i # j => s[i] # s[j]} }
            : n \in 0..MaxLayers }

\* entries of a checkpoint; shape 2 does not fit a layer of the model, and a
\* plain list is no array
SourceEntries ==
    { Item(CONV1, Tensor(1, "a")),
      Item(CONV1, Tensor(2, "a2")),
      Item(FC, NdArray(1, "b")),
      Item(FC, List(1, "l")),
      Item(<<"extra.", "layer">>, Tensor(1, "e")),
      Item(<<"heads.", "aux">>, Tensor(1, "x")),
      Item(<<"module.", "conv1">>, Tensor(1, "m")) }

FlatDicts ==
    UNION { {s \in [1..n -> SourceEntries] :
                \A i, j \in 1..n : i # j => s[i].key # s[j].key}
            : n \in 0..MaxSource }

\* {"model_state_dict": d}
Wrapped(d) == << Item(<<"model_state_dict">>, Dict(d)) >>

\* {"classy_state_dict": {"base_model": {"model": {"trunk": t, "heads": h}}}}
Classy(t, h) ==
    << Item(CLASSY_STATE_DICT,
            Dict(<< Item(<<"base_model">>,
                         Dict(<< Item(<<"model">>,
                                      Dict(<< Item(<<"trunk">>, Dict(t)),
                                              Item(<<"heads">>, Dict(h)) >>)) >>)) >>)) >>

TrunkDicts ==
    { <<>>,
      << Item(<<"_feature_blocks.", "conv1">>, Tensor(1, "t")) >>,
      << Item(<<"_feature_blocks.", "conv1">>, Tensor(2, "t2")) >> }

HeadDicts == { <<>>, << Item(<<"fc">>, NdArray(1, "h")) >> }

\* what torch.load gave: a flat state dict, a state dict of at most one entry
\* under a key, a classy checkpoint
RawDicts ==
    FlatDicts \cup {Wrapped(d) : d \in {f \in FlatDicts : Len(f) <= 1}}
              \cup {Classy(t, h) : t \in TrunkDicts, h \in HeadDicts}

KeyNames == { PyNone, PyStr(<<"model_state_dict">>), PyStr(CLASSY_STATE_DICT) }
SkipLists == { <<>>, << <<"encoder.">>, <<"fc">> >> }
ReplacePrefixes == { PyNone, PyStr(<<"module.">>) }
AppendPrefixes == { PyNone, PyStr(TRUNK_PREFIX) }
LocalRanks == {0, 1}

InitWeights ==
    /\ listing = <<>>
    /\ state_dict \in RawDicts
    /\ model \in Models
    /\ op = NoCall
    /\ ret = NoRet
    /\ log = <<>>
    /\ copied = <<>>

CallInitModelFromWeights ==
    /\ op = NoCall
    /\ \E feature_eval_mode \in BOOLEAN, key_name \in KeyNames,
          skip_layers \in SkipLists, replace_prefix \in ReplacePrefixes,
          append_prefix \in AppendPrefixes, local_rank \in LocalRanks :
        LET out == init_model_from_weights(feature_eval_mode, model, state_dict,
                                           key_name, skip_layers, replace_prefix,
                                           append_prefix, local_rank)
        IN  /\ op' = [name |-> "init_model_from_weights",
                      feature_eval_mode |-> feature_eval_mode,
                      model |-> model, key_name |-> key_name,
                      skip_layers |-> skip_layers,
                      replace_prefix |-> replace_prefix,
                      append_prefix |-> append_prefix, local_rank |-> local_rank]
            /\ ret' = out.ret
            /\ model' = out.model
            /\ log' = out.log
            /\ copied' = out.copied
    /\ UNCHANGED <<listing, state_dict>>

NextWeights == CallInitModelFromWeights

SpecWeights == InitWeights /\ [][NextWeights]_vars

---------------------------------------------------------------------------
(* Properties of init_model_from_weights, checked under SpecWeights *)

\* the transformed source dict of the call made: the state dict after the
\* key_name descent, the prefix strip and the prefix append (or the classy
\* reconciliation), or the error that ended the call before the copy loop
Reconciled ==
    LET descent == Descend(state_dict, op.key_name)
    IN  IF descent.kind = "raise" THEN descent
        ELSE TransformKeys(op.feature_eval_mode, descent.value, op.key_name,
                           op.replace_prefix, op.append_prefix)

\* the layer name contains one of the skip_layers strings
SkipMatch(layername) ==
    \E item \in Range(op.skip_layers) : Contains(layername, item)

\* what a copy leaves in a layer: a tensor with the source's shape and data
Loaded(src, layername) ==
    Tensor(DictGet(src, layername).shape, DictGet(src, layername).data)

\* the source value is neither a tensor nor an array
NoArray(src, layername) ==
    DictGet(src, layername).type \notin {"Tensor", "ndarray"}

\* the layers whose copy cannot succeed: not skipped, in the source, and there
\* no array or of another shape
Misfits(src) ==
    {i \in 1..Len(op.model) :
        /\ ~SkipMatch(op.model[i].key)
        /\ op.model[i].key \in KeySet(src)
        /\ \/ NoArray(src, op.model[i].key)
           \/ DictGet(src, op.model[i].key).shape # op.model[i].val.shape}

\* C7: after init_model_from_weights completes without error, a layer whose
\* name contains a skip_layers string has the value it had before the call,
\* even when the transformed source dict has its key; any other layer that is
\* a key of the transformed source dict has the source value; any other layer
\* is unchanged; the model has the same layer names as before, and the model
\* returned is the model that was passed.
C7_LayersAfterLoad ==
    (op.name = "init_model_from_weights" /\ ret.kind = "return") =>
        LET before == op.model
            src == Reconciled.value
        IN  /\ ret = Return(Dict(model))
            /\ DictKeys(model) = DictKeys(before)
            /\ \A i \in 1..Len(before) :
                  IF SkipMatch(before[i].key)
                  THEN model[i].val = before[i].val
                  ELSE IF before[i].key \in KeySet(src)
                  THEN model[i].val = Loaded(src, before[i].key)
                  ELSE model[i].val = before[i].val

\* a completed call in which one layer was skipped although the source has
\* it, and another layer took a new value from the source
C7_Witness ==
    /\ op.name = "init_model_from_weights"
    /\ ret.kind = "return"
    /\ \E i, j \in 1..Len(model) :
          /\ SkipMatch(model[i].key)
          /\ model[i].key \in KeySet(Reconciled.value)
          /\ model[i].val = op.model[i].val
          /\ ~SkipMatch(model[j].key)
          /\ model[j].val # op.model[j].val

\* the class the report is expected to give a layer
ExpectedClass(src, layername) ==
    IF SkipMatch(layername) THEN "Ignored layer"
    ELSE IF layername \in KeySet(src) THEN "Loaded"
    ELSE "Not found"

\* the report: one line per layer of the model, in the class the rule gives,
\* "Loaded" for exactly the layers copied, and last the source keys that are
\* not layers of the model; a report only from local rank 0, and from every
\* call of local rank 0 that returns
ReportIsRight ==
    op.name = "init_model_from_weights" =>
        /\ (ret.kind = "return" /\ op.local_rank = 0) => log # <<>>
        /\ log # <<>> =>
              LET src == Reconciled.value
              IN  /\ op.local_rank = 0
                  /\ ret.kind = "return"
                  /\ Len(log) = Len(model) + 1
                  /\ \A i \in 1..Len(model) :
                        /\ log[i].layer = model[i].key
                        /\ log[i].msg = ExpectedClass(src, model[i].key)
                        /\ (log[i].msg = "Loaded") <=> (model[i].key \in Range(copied))
                  /\ log[Len(log)].msg = "Extra layers"
                  /\ Range(log[Len(log)].layers) = KeySet(src) \ KeySet(model)
                  /\ Len(log[Len(log)].layers)
                        = Cardinality(KeySet(src) \ KeySet(model))

\* the call of the example: target {trunk._feature_blocks.conv1, heads.fc},
\* source {trunk._feature_blocks.conv1, extra}, nothing skipped, no prefix
\* option, training mode, local rank 0
ExampleCall(extra) ==
    /\ op.name = "init_model_from_weights"
    /\ ~op.feature_eval_mode
    /\ op.key_name = PyNone
    /\ op.replace_prefix = PyNone
    /\ op.append_prefix = PyNone
    /\ op.skip_layers = <<>>
    /\ op.local_rank = 0
    /\ KeySet(op.model) = {CONV1, FC}
    /\ KeySet(state_dict) = {CONV1, extra}
    /\ DictGet(state_dict, CONV1).shape = DictGet(op.model, CONV1).shape

\* conv1 loaded, heads.fc not found, extra listed as the one unused layer
ExampleReport(extra) ==
    /\ Len(log) = 3
    /\ [msg |-> "Loaded", layer |-> CONV1] \in {log[1], log[2]}
    /\ [msg |-> "Not found", layer |-> FC] \in {log[1], log[2]}
    /\ log[3] = [msg |-> "Extra layers", layers |-> <<extra>>]
    /\ copied = <<CONV1>>

\* C8 as stated: the report classes every layer of the model as skipped,
\* loaded or not found, "loaded" for exactly the layers copied, and lists the
\* source keys that are not layers of the model; only local rank 0 reports;
\* and target {trunk._feature_blocks.conv1, heads.fc} with source
\* {trunk._feature_blocks.conv1, extra.layer} gives conv1 loaded, heads.fc not
\* found, extra.layer extra.
C8_ReportWithExample ==
    /\ ReportIsRight
    /\ ExampleCall(<<"extra.", "layer">>) => ExampleReport(<<"extra.", "layer">>)

\* C8 as amended: the same report; but the source of the example is rejected
\* by check_model_compatibilty ("extra.layer" has no recognised prefix): the
\* call raises the compatibility error, copies nothing and reports nothing.
\* With an extra key that has a recognised prefix (heads.aux) the example
\* gives conv1 loaded, heads.fc not found, heads.aux extra.
C8_ReportWithCompatibleExample ==
    /\ ReportIsRight
    /\ ExampleCall(<<"extra.", "layer">>) =>
          /\ ret = Raise("Exception")
          /\ model = op.model
          /\ copied = <<>>
          /\ log = <<>>
    /\ ExampleCall(<<"heads.", "aux">>) => ExampleReport(<<"heads.", "aux">>)

\* the amended example was run and reported
C8_Witness ==
    /\ ExampleCall(<<"heads.", "aux">>)
    /\ ExampleReport(<<"heads.", "aux">>)
    /\ ret.kind = "return"

\* C9: when the copy of a layer fails (on a shape mismatch, or on a source
\* value that is no array), the call ends in that error without rollback: the
\* layers before the failing one that are not skipped and are in the source
\* keep the copied source value, the failing layer and every layer after it
\* keep their previous values, and no report is logged.  The copy fails at the
\* first layer that is not skipped, is in the source and does not fit.
C9_NoRollback ==
    (/\ op.name = "init_model_from_weights"
     /\ Reconciled.kind = "return"
     /\ Misfits(Reconciled.value) # {})
        => LET src == Reconciled.value
               before == op.model
               failing == CHOOSE i \in Misfits(src) : \A j \in Misfits(src) : i <= j
           IN  /\ ret = IF NoArray(src, before[failing].key)
                        THEN Raise("TypeError")
                        ELSE Raise("RuntimeError")
               /\ log = <<>>
               /\ DictKeys(model) = DictKeys(before)
               /\ \A i \in 1..(failing - 1) :
                     IF ~SkipMatch(before[i].key) /\ before[i].key \in KeySet(src)
                     THEN model[i].val = Loaded(src, before[i].key)
                     ELSE model[i].val = before[i].val
               /\ \A i \in failing..Len(before) : model[i].val = before[i].val

\* a local-rank-0 call that copied one layer and then failed on the next
C9_Witness ==
    /\ op.name = "init_model_from_weights"
    /\ op.local_rank = 0
    /\ ret = Raise("RuntimeError")
    /\ Len(copied) = 1
    /\ \E i \in 1..Len(model) : model[i].val # op.model[i].val
    /\ \E i \in 1..Len(model) :
          /\ model[i].val = op.model[i].val
          /\ i \in Misfits(Reconciled.value)

====
